---- MODULE Spec2Model ----
(***************************************************************************)
(* Model of db_search (src/src/main.rs): one run of the tool.  The run     *)
(* opens the address store read-only, tunes the connection, loads the      *)
(* candidate file line by line, queries the store once per chunk of        *)
(* BATCH_SIZE candidates and turns the result into an exit code.           *)
(*                                                                         *)
(* Strings are sequences of one-character strings.  The store is the       *)
(* sequence of the values of the address column in the engine's iteration  *)
(* order (duplicates allowed) together with the journal mode persisted in  *)
(* the database header.  Every fallible call (each `?` of the source) has  *)
(* a failing action next to its succeeding one: whether it fails is the    *)
(* environment's choice.                                                   *)
(***************************************************************************)
EXTENDS Naturals, Sequences, FiniteSets

VARIABLES
    store,            \* address column of table addresses, in iteration order
    dbJournal,        \* journal mode persisted in the database file
    file,             \* the candidate file: a sequence of lines
    batchSize,        \* BATCH_SIZE of this build
    pc,               \* position of the run
    connReadOnly,     \* the connection was opened with SQLITE_OPEN_READ_ONLY
    lineNo,           \* next line of the file reader.lines() yields
    addresses,        \* check_addresses: addresses
    rest,             \* the slice the chunks() iterator still holds
    found_addresses,  \* check_addresses: found_addresses
    queries,          \* parameter lists of the membership queries issued so far
    ret,              \* what check_addresses returned
    failedAt,         \* the phase whose `?` returned the error ("none": no error)
    stderr,           \* lines main printed
    exits             \* exit codes the process ended with

vars == <<store, dbJournal, file, batchSize, pc, connReadOnly, lineNo, addresses,
          rest, found_addresses, queries, ret, failedAt, stderr, exits>>

-----------------------------------------------------------------------------
\* Bounds of the model.
MaxLines == 3
MaxStoreRows == 2
MaxBatch == 3

\* Lines a candidate file is made of: empty, whitespace-only, padded, plain.
Lines == { <<>>, <<" ">>, <<" ", "a", " ">>, <<"b">> }

\* Values the address column holds; the last one is stored with its padding.
StoreKeys == { <<"a">>, <<"b">>, <<" ", "a", " ">> }

Whitespace == { " " }

\* BATCH_SIZE (line 9) is 1000; the run is checked for each of these sizes.
BatchSizes == 1..MaxBatch

BoundedSeq(S, n) == UNION { [1..k -> S] : k \in 0..n }

Range(s) == { s[i] : i \in 1..Len(s) }

Min(a, b) == IF a <= b THEN a ELSE b

-----------------------------------------------------------------------------
\* str::trim (line 65): drop the leading, then the trailing whitespace.
RECURSIVE TrimStart(_)
TrimStart(s) ==
    IF s # <<>> /\ Head(s) \in Whitespace THEN TrimStart(Tail(s)) ELSE s

RECURSIVE TrimEnd(_)
TrimEnd(s) ==
    IF s # <<>> /\ s[Len(s)] \in Whitespace
    THEN TrimEnd(SubSeq(s, 1, Len(s) - 1))
    ELSE s

\* Faulty variant: trim_start in place of trim.
M_Trim(line) == TrimStart(line)

Trim(line) == TrimEnd(TrimStart(line))

\* Faulty variant: the is_empty test is missing.
M_PushLine(addrs, line) == Append(addrs, Trim(line))

\* Body of the read loop (lines 65-68): push the trimmed line unless empty.
PushLine(addrs, line) ==
    LET address == Trim(line)
    IN  IF address # <<>> THEN Append(addrs, address) ELSE addrs

-----------------------------------------------------------------------------
\* slice::chunks(BATCH_SIZE) (line 78): the iterator holds the rest of the
\* slice; next() splits min(len, chunk_size) elements off its front and ends
\* when the rest is empty.
\* Faulty variant: chunks_exact, which never yields the short final chunk.
M_ChunksDone(v, size) == Len(v) < size

ChunksDone(v, size) == v = <<>>

\* Faulty variant: a chunk one key longer than the batch size.
M_ChunkLen(v, size) == Min(Len(v), size + 1)

ChunkLen(v, size) == Min(Len(v), size)

Chunk(v, size) == SubSeq(v, 1, ChunkLen(v, size))

\* Faulty variant: one key is skipped between two chunks.
M_ChunkRest(v, size) == SubSeq(v, ChunkLen(v, size) + 2, Len(v))

ChunkRest(v, size) == SubSeq(v, ChunkLen(v, size) + 1, Len(v))

-----------------------------------------------------------------------------
\* check_batch (lines 86-111): SELECT address FROM addresses WHERE address IN
\* (?,...,?) bound to the chunk; the row loop pushes each returned address.
\* Faulty variant: the query has no WHERE clause.
RECURSIVE M_Rows(_, _)
M_Rows(rows, params) ==
    IF rows = <<>> THEN <<>> ELSE <<Head(rows)>> \o M_Rows(Tail(rows), params)

RECURSIVE Rows(_, _)
Rows(rows, params) ==
    IF rows = <<>> THEN <<>>
    ELSE (IF \E i \in 1..Len(params) : params[i] = Head(rows)
          THEN <<Head(rows)>> ELSE <<>>) \o Rows(Tail(rows), params)

\* Faulty variant: a match already collected is not appended again.
RECURSIVE M_Aggregate(_, _)
M_Aggregate(found, batch_found) ==
    IF batch_found = <<>> THEN found
    ELSE M_Aggregate(IF Head(batch_found) \in Range(found) THEN found
                     ELSE Append(found, Head(batch_found)),
                     Tail(batch_found))

\* found_addresses.append(&mut batch_found) (line 80).
Aggregate(found, batch_found) == found \o batch_found

-----------------------------------------------------------------------------
\* Faulty variant: the connection is opened read-write.
M_OpenReadOnly == FALSE

\* OpenFlags::SQLITE_OPEN_READ_ONLY (line 41).
OpenReadOnly == TRUE

\* PRAGMA journal_mode = WAL (line 49): the mode is persisted in the file, so
\* only a writable connection changes it.
JournalAfterPragma(journal, readOnly) ==
    IF readOnly THEN journal ELSE "wal"

\* Faulty variant: the codes of the two Ok branches are swapped.
M_ExitCode(r) == IF ~r.ok THEN 2 ELSE IF r.val # <<>> THEN 0 ELSE 1

\* main's match (lines 17-34).
ExitCode(r) == IF ~r.ok THEN 2 ELSE IF r.val # <<>> THEN 1 ELSE 0

RECURSIVE MatchLines(_)
MatchLines(found) ==
    IF found = <<>> THEN <<>>
    ELSE <<[kind |-> "match", n |-> 0, addr |-> Head(found)]>> \o MatchLines(Tail(found))

\* What main prints for a result (lines 19-32).
Report(r) ==
    IF ~r.ok THEN <<[kind |-> "error", n |-> 0, addr |-> <<>>]>>
    ELSE IF r.val # <<>>
         THEN <<[kind |-> "count", n |-> Len(r.val), addr |-> <<>>]>> \o MatchLines(r.val)
         ELSE <<[kind |-> "none", n |-> 0, addr |-> <<>>]>>

-----------------------------------------------------------------------------
Init ==
    /\ store \in BoundedSeq(StoreKeys, MaxStoreRows)
    /\ dbJournal \in {"delete", "wal"}
    /\ file \in BoundedSeq(Lines, MaxLines)
    /\ batchSize \in BatchSizes
    /\ pc = "open"
    /\ connReadOnly = FALSE
    /\ lineNo = 1
    /\ addresses = <<>>
    /\ rest = <<>>
    /\ found_addresses = <<>>
    /\ queries = <<>>
    /\ ret = [ok |-> FALSE, val |-> <<>>]
    /\ failedAt = "none"
    /\ stderr = <<>>
    /\ exits = <<>>

\* A `?` that returns the error: check_addresses returns Err at once.  Its
\* locals are dropped with the frame; the model leaves them as they were.
Fail(phase) ==
    /\ pc' = "returned"
    /\ ret' = [ok |-> FALSE, val |-> <<>>]
    /\ failedAt' = phase

\* Faulty variant: a failed batch is skipped and the loop goes on.
M_FailBatch(phase) ==
    /\ pc' = "chunks"
    /\ ret' = ret
    /\ failedAt' = phase

\* The `?` of line 79.
FailBatch(phase) == Fail(phase)

\* Connection::open_with_flags (lines 39-42).
OpenStore ==
    /\ pc = "open"
    /\ pc' = "busy_timeout"
    /\ connReadOnly' = OpenReadOnly
    /\ UNCHANGED <<store, dbJournal, file, batchSize, lineNo, addresses, rest,
                   found_addresses, queries, ret, failedAt, stderr, exits>>

OpenStoreErr ==
    /\ pc = "open"
    /\ Fail("open")
    /\ UNCHANGED <<store, dbJournal, file, batchSize, connReadOnly, lineNo, addresses,
                   rest, found_addresses, queries, stderr, exits>>

\* conn.busy_timeout (line 45).
BusyTimeout ==
    /\ pc = "busy_timeout"
    /\ pc' = "pragmas"
    /\ UNCHANGED <<store, dbJournal, file, batchSize, connReadOnly, lineNo, addresses,
                   rest, found_addresses, queries, ret, failedAt, stderr, exits>>

BusyTimeoutErr ==
    /\ pc = "busy_timeout"
    /\ Fail("tune")
    /\ UNCHANGED <<store, dbJournal, file, batchSize, connReadOnly, lineNo, addresses,
                   rest, found_addresses, queries, stderr, exits>>

\* conn.execute_batch of the PRAGMAs (lines 48-57); all but journal_mode set
\* state of the connection only.
ExecPragmas ==
    /\ pc = "pragmas"
    /\ pc' = "open_file"
    /\ dbJournal' = JournalAfterPragma(dbJournal, connReadOnly)
    /\ UNCHANGED <<store, file, batchSize, connReadOnly, lineNo, addresses, rest,
                   found_addresses, queries, ret, failedAt, stderr, exits>>

\* A PRAGMA is rejected: at the first one, or after journal_mode took effect.
ExecPragmasErr ==
    /\ pc = "pragmas"
    /\ Fail("tune")
    /\ dbJournal' \in {dbJournal, JournalAfterPragma(dbJournal, connReadOnly)}
    /\ UNCHANGED <<store, file, batchSize, connReadOnly, lineNo, addresses, rest,
                   found_addresses, queries, stderr, exits>>

\* File::open (line 60).
OpenFile ==
    /\ pc = "open_file"
    /\ pc' = "read"
    /\ UNCHANGED <<store, dbJournal, file, batchSize, connReadOnly, lineNo, addresses,
                   rest, found_addresses, queries, ret, failedAt, stderr, exits>>

OpenFileErr ==
    /\ pc = "open_file"
    /\ Fail("read")
    /\ UNCHANGED <<store, dbJournal, file, batchSize, connReadOnly, lineNo, addresses,
                   rest, found_addresses, queries, stderr, exits>>

\* One iteration of the read loop (lines 64-69).
ReadLine ==
    /\ pc = "read"
    /\ lineNo <= Len(file)
    /\ addresses' = PushLine(addresses, file[lineNo])
    /\ lineNo' = lineNo + 1
    /\ UNCHANGED <<store, dbJournal, file, batchSize, pc, connReadOnly, rest,
                   found_addresses, queries, ret, failedAt, stderr, exits>>

\* `line?` (line 65): the line cannot be read or decoded.
ReadLineErr ==
    /\ pc = "read"
    /\ lineNo <= Len(file)
    /\ Fail("read")
    /\ UNCHANGED <<store, dbJournal, file, batchSize, connReadOnly, lineNo, addresses,
                   rest, found_addresses, queries, stderr, exits>>

\* End of the file with no candidate (lines 71-73).
ReturnEmpty ==
    /\ pc = "read"
    /\ lineNo > Len(file)
    /\ addresses = <<>>
    /\ pc' = "returned"
    /\ ret' = [ok |-> TRUE, val |-> <<>>]
    /\ UNCHANGED <<store, dbJournal, file, batchSize, connReadOnly, lineNo, addresses,
                   rest, found_addresses, queries, failedAt, stderr, exits>>

\* End of the file with candidates: enter the batch loop (lines 75-78).
StartChunks ==
    /\ pc = "read"
    /\ lineNo > Len(file)
    /\ addresses # <<>>
    /\ pc' = "chunks"
    /\ found_addresses' = <<>>
    /\ rest' = addresses
    /\ UNCHANGED <<store, dbJournal, file, batchSize, connReadOnly, lineNo, addresses,
                   queries, ret, failedAt, stderr, exits>>

\* One iteration of the batch loop (lines 78-81) whose check_batch succeeds.
CheckBatch ==
    /\ pc = "chunks"
    /\ ~ChunksDone(rest, batchSize)
    /\ LET chunk == Chunk(rest, batchSize)
       IN  /\ queries' = Append(queries, chunk)
           /\ found_addresses' = Aggregate(found_addresses, Rows(store, chunk))
    /\ rest' = ChunkRest(rest, batchSize)
    /\ UNCHANGED <<store, dbJournal, file, batchSize, pc, connReadOnly, lineNo,
                   addresses, ret, failedAt, stderr, exits>>

\* check_batch fails: prepare_cached or query (lines 94, 103) before any row,
\* or rows.next / row.get (lines 105-106) on a returned row.
CheckBatchErr ==
    /\ pc = "chunks"
    /\ ~ChunksDone(rest, batchSize)
    /\ LET chunk == Chunk(rest, batchSize)
       IN  /\ queries' = Append(queries, chunk)
           /\ \E phase \in {"query", "decode"} :
                /\ phase = "decode" => Rows(store, chunk) # <<>>
                /\ FailBatch(phase)
    /\ rest' = ChunkRest(rest, batchSize)
    /\ UNCHANGED <<store, dbJournal, file, batchSize, connReadOnly, lineNo, addresses,
                   found_addresses, stderr, exits>>

\* The loop ends: Ok(found_addresses) (line 83).
ReturnFound ==
    /\ pc = "chunks"
    /\ ChunksDone(rest, batchSize)
    /\ pc' = "returned"
    /\ ret' = [ok |-> TRUE, val |-> found_addresses]
    /\ UNCHANGED <<store, dbJournal, file, batchSize, connReadOnly, lineNo, addresses,
                   rest, found_addresses, queries, failedAt, stderr, exits>>

\* main's match on the result (lines 17-34).
Main ==
    /\ pc = "returned"
    /\ pc' = "exited"
    /\ stderr' = stderr \o Report(ret)
    /\ exits' = Append(exits, ExitCode(ret))
    /\ UNCHANGED <<store, dbJournal, file, batchSize, connReadOnly, lineNo, addresses,
                   rest, found_addresses, queries, ret, failedAt>>

Next ==
    \/ OpenStore
    \/ OpenStoreErr
    \/ BusyTimeout
    \/ BusyTimeoutErr
    \/ ExecPragmas
    \/ ExecPragmasErr
    \/ OpenFile
    \/ OpenFileErr
    \/ ReadLine
    \/ ReadLineErr
    \/ ReturnEmpty
    \/ StartChunks
    \/ CheckBatch
    \/ CheckBatchErr
    \/ ReturnFound
    \/ Main

Spec == Init /\ [][Next]_vars

-----------------------------------------------------------------------------
\* Vocabulary of the properties, stated on the file and the store themselves.

IsBlank(line) == \A i \in 1..Len(line) : line[i] \in Whitespace

FirstInk(line) ==
    CHOOSE i \in 1..Len(line) :
        line[i] \notin Whitespace /\ \A j \in 1..(i - 1) : line[j] \in Whitespace

LastInk(line) ==
    CHOOSE i \in 1..Len(line) :
        line[i] \notin Whitespace /\ \A j \in (i + 1)..Len(line) : line[j] \in Whitespace

\* The line without its surrounding whitespace.
Core(line) ==
    IF IsBlank(line) THEN <<>> ELSE SubSeq(line, FirstInk(line), LastInk(line))

NonBlankIdx == { n \in 1..Len(file) : ~IsBlank(file[n]) }

\* The i-th non-blank line of the file, in file order.
NthNonBlank(i) ==
    CHOOSE n \in NonBlankIdx : Cardinality({ m \in NonBlankIdx : m < n }) = i - 1

CandidateKeys == { Core(file[n]) : n \in NonBlankIdx }

Count(s, x) == Cardinality({ i \in 1..Len(s) : s[i] = x })

RECURSIVE Flatten(_)
Flatten(ss) == IF ss = <<>> THEN <<>> ELSE Head(ss) \o Flatten(Tail(ss))

\* The candidate file was read to its end.
Loaded == pc \in {"chunks", "returned", "exited"} /\ failedAt \notin {"open", "tune", "read"}

\* check_addresses returned Ok.
Succeeded == pc \in {"returned", "exited"} /\ ret.ok

NumBatches == (Len(addresses) + batchSize - 1) \div batchSize

\* The j-th batch by position: candidates (j-1)*B+1 .. min(j*B, N).
BatchAt(j) ==
    SubSeq(addresses, (j - 1) * batchSize + 1, Min(j * batchSize, Len(addresses)))

RECURSIVE BatchResults(_)
BatchResults(j) ==
    IF j > NumBatches THEN <<>> ELSE Rows(store, BatchAt(j)) \o BatchResults(j + 1)

UniqueStore == \A i, j \in 1..Len(store) : store[i] = store[j] => i = j

MatchOutput == { i \in 1..Len(stderr) : stderr[i].kind = "match" }

-----------------------------------------------------------------------------
\* C1 (completeness): when check_addresses returns Ok, every candidate key (a
\* trimmed non-blank line of the file) that is in the store's address column is
\* in the returned match list, whatever the batch size and also for candidates
\* of the final, shorter batch.
C1_Completeness ==
    Succeeded =>
        \A k \in CandidateKeys : k \in Range(store) => k \in Range(ret.val)

C1_Witness ==
    /\ Succeeded
    /\ Len(queries) >= 2
    /\ Len(queries[Len(queries)]) < batchSize
    /\ \E k \in Range(queries[Len(queries)]) : k \in Range(store) /\ k \in Range(ret.val)

\* C2 (soundness): every element of the match list of a successful run is a
\* value of the store's address column and one of the candidate keys.
C2_Soundness ==
    Succeeded =>
        \A x \in Range(ret.val) : x \in Range(store) /\ x \in CandidateKeys

C2_Witness ==
    /\ Succeeded
    /\ ret.val # <<>>
    /\ \E x \in Range(store) : x \notin CandidateKeys
    /\ \E k \in CandidateKeys : k \notin Range(store)

\* C3 (exit codes): the process exits at most once, it has exited exactly when
\* the run is over, and the code is 1 for Ok with matches, 0 for Ok without
\* matches, 2 when a phase failed; a run that has not exited can take a step.
C3_ExitCode ==
    /\ Len(exits) <= 1
    /\ (pc = "exited") <=> (Len(exits) = 1)
    /\ pc # "exited" => ENABLED Next
    /\ pc = "exited" =>
        /\ exits[1] \in {0, 1, 2}
        /\ (exits[1] = 1) <=> (failedAt = "none" /\ ret.ok /\ ret.val # <<>>)
        /\ (exits[1] = 0) <=> (failedAt = "none" /\ ret.ok /\ ret.val = <<>>)
        /\ (exits[1] = 2) <=> (failedAt # "none")
        /\ (failedAt # "none") <=> ~ret.ok

C3_Witness ==
    /\ pc = "exited"
    /\ exits = <<1>>
    /\ Len(queries) >= 2
    /\ Cardinality(MatchOutput) = Len(ret.val)

\* C4 as stated: a candidate file with no candidate entry ends with an empty
\* match set and exit code 0 and issues no query, whatever the state of the
\* store.
C4_Original ==
    (pc = "exited" /\ NonBlankIdx = {}) =>
        /\ exits = <<0>>
        /\ ret = [ok |-> TRUE, val |-> <<>>]
        /\ queries = <<>>

\* C4 (amended): a candidate file with no candidate entry never issues a query
\* and never reports a match; it ends with an empty match set and exit code 0
\* when the store is opened and tuned and the file is read without error, and
\* with exit code 2 when one of those steps fails.
C4_EmptyCandidates ==
    NonBlankIdx = {} =>
        /\ queries = <<>>
        /\ MatchOutput = {}
        /\ pc = "exited" =>
            /\ failedAt = "none" => exits = <<0>> /\ ret = [ok |-> TRUE, val |-> <<>>]
            /\ failedAt # "none" => exits = <<2>> /\ failedAt \in {"open", "tune", "read"}

C4_Witness ==
    /\ pc = "exited"
    /\ NonBlankIdx = {}
    /\ \E n \in 1..Len(file) : file[n] # <<>>
    /\ store # <<>>
    /\ exits = <<0>>

\* C5 (batching is transparent): the match list of a successful run has the
\* same set of keys as one membership query over the whole candidate sequence.
C5_BatchTransparent ==
    Succeeded => Range(ret.val) = Range(Rows(store, addresses))

C5_Witness ==
    /\ Succeeded
    /\ batchSize < Len(addresses)
    /\ Len(queries) >= 2
    /\ Cardinality(Range(ret.val)) >= 2

\* C6 (errors abort): once a phase has failed, the only step left is main's
\* exit: no further line is read, no further batch is queried, the matches
\* collected so far are not returned and not printed, and the exit code is 2.
C6_Abort ==
    [][failedAt # "none" =>
        /\ ~ret.ok /\ ret.val = <<>>
        /\ queries' = queries
        /\ lineNo' = lineNo
        /\ rest' = rest
        /\ found_addresses' = found_addresses
        /\ failedAt' = failedAt
        /\ pc' = "exited"
        /\ exits' = <<2>>
        /\ \A i \in 1..Len(stderr') : stderr'[i].kind # "match"]_vars

C6_Witness ==
    /\ pc = "exited"
    /\ failedAt = "query"
    /\ found_addresses # <<>>
    /\ rest # <<>>
    /\ exits = <<2>>

\* C7 (candidate loader): once the file is read, the candidates are exactly
\* its non-blank lines without their surrounding whitespace, in file order;
\* no candidate is empty and no blank string is a parameter of a query.
C7_Loader ==
    /\ \A i \in 1..Len(addresses) : ~IsBlank(addresses[i])
    /\ \A q \in Range(queries) : \A p \in Range(q) : ~IsBlank(p)
    /\ Loaded =>
        /\ Len(addresses) = Cardinality(NonBlankIdx)
        /\ \A i \in 1..Len(addresses) : addresses[i] = Core(file[NthNonBlank(i)])

C7_Witness ==
    /\ Loaded
    /\ \E n \in 1..Len(file) : IsBlank(file[n])
    /\ \E n \in NonBlankIdx : Core(file[n]) # file[n]
    /\ Len(addresses) >= 2
    /\ addresses[1] # addresses[2]
    /\ queries # <<>>

\* C8 (the store is never mutated): no step of a run changes the address
\* column or the journal mode persisted in the database.
C8_StoreUnchanged ==
    [][store' = store /\ dbJournal' = dbJournal]_vars

C8_Witness ==
    /\ pc = "exited"
    /\ connReadOnly
    /\ dbJournal = "delete"
    /\ store # <<>>
    /\ queries # <<>>

\* C9 (aggregation without deduplication): the match list of a successful run
\* is the concatenation, in batch order, of the results of the batches; with
\* unique store keys a stored key is listed once for each batch containing it.
C9_Aggregation ==
    Succeeded =>
        /\ ret.val = BatchResults(1)
        /\ UniqueStore =>
            \A k \in Range(store) :
                Count(ret.val, k) =
                    Cardinality({ j \in 1..NumBatches : k \in Range(BatchAt(j)) })

C9_Witness ==
    /\ Succeeded
    /\ UniqueStore
    /\ \E k \in Range(store) :
        /\ Count(ret.val, k) = 2
        /\ \E i \in 1..Len(queries) : Count(queries[i], k) = 2

\* C10 (batching policy): the queries issued are consecutive non-empty chunks
\* of the candidate sequence, each of at most batchSize keys and all but the
\* last of exactly batchSize; together with the rest still to be queried they
\* are the candidate sequence, and a successful run issued ceil(N/B) queries.
C10_Batching ==
    /\ \A i \in 1..Len(queries) : Len(queries[i]) \in 1..batchSize
    /\ \A i \in 1..(Len(queries) - 1) : Len(queries[i]) = batchSize
    /\ \A i \in 1..Len(queries) : queries[i] = BatchAt(i)
    /\ pc = "chunks" => Flatten(queries) \o rest = addresses
    /\ Succeeded => Flatten(queries) = addresses /\ Len(queries) = NumBatches

C10_Witness ==
    /\ Succeeded
    /\ Len(queries) >= 2
    /\ Len(queries[Len(queries)]) < batchSize
    /\ Len(queries[1]) = batchSize

====
